---------------------------- MODULE Spec2Model ----------------------------
(***************************************************************************)
(* TTS batch orchestration of dramaflow-clip-backend.                      *)
(*                                                                         *)
(*   TtsTaskService   (tts.service.ts, src/unnamed/part_004)               *)
(*   TtsTaskProcessor (src/src/modules/tts/tts.processor.ts)               *)
(*   TtsModule        (src/src/modules/tts/tts.module.ts)                  *)
(*                                                                         *)
(* Every `await` of the source is a point where other requests, worker     *)
(* deliveries and event handlers may interleave; a handler is therefore    *)
(* split into one action per awaited store / queue operation.  Awaits      *)
(* whose position cannot be observed by any other activity are merged      *)
(* with the step that follows them (this is noted at each action).         *)
(*                                                                         *)
(* The store is the Prisma client: `update` of a missing row throws,       *)
(* `updateMany`/`deleteMany` do not; sys_tts_task carries the compound     *)
(* unique key scheme_id_scheme_index_segment_key that findUnique and       *)
(* upsert of the service name (part_004:341, part_004:682), so `create`    *)
(* of a second row with the same key throws.                               *)
(*                                                                         *)
(* The queue is BullMQ: waiting jobs are delivered first-in first-out, a   *)
(* job whose processor throws is re-queued (delayed) until `attempts`      *)
(* attempts were made, Job.remove() of a job a worker holds throws, and    *)
(* the worker emits 'failed' after every attempt that threw and            *)
(* 'completed' after an attempt that returned.                             *)
(***************************************************************************)
EXTENDS Integers, Sequences, FiniteSets, Bags, TLC

(***************************************************************************)
(* Program constants                                                       *)
(***************************************************************************)
PENDING == 0
SUCCESS == 1
FAILED == 2
DEPRECATED == 3

IDLE == 0
PROCESSING == 1
SCHEME_SUCCESS == 2
SCHEME_FAILED == 3

attempts == 3

segmentKeys == <<"begin", "middle", "end">>

(***************************************************************************)
(* Bounds of the model                                                     *)
(***************************************************************************)
MaxItems == 1        \* largest actualScheme.length a createTasks call brings
DocLen == 1          \* Segments of the scheme's download_content
\* Spec: concurrent API calls
MaxCalls == 2        \* API calls started in one behaviour
RaceDeliveries == 1  \* job deliveries followed when two createTasks calls race
SeqDeliveries == 4   \* job deliveries followed otherwise
ApiFailures == 1     \* provider / upload failures injected
ApiWorkers == 1      \* jobs processed at the same time
ApiHandlers == 1     \* checkSchemeTasks runs alive at the same time
\* SpecBatch: one batch worked off
MaxFailures == 3     \* provider / upload failures injected
Concurrency == 3     \* jobs processed at the same time
MaxHandlers == 2     \* checkSchemeTasks runs alive at the same time
\* SpecSchemes: calls on two schemes
SchemesRetries == 2     \* retryFailedTasks calls started
SchemesDeliveries == 2  \* job deliveries followed
SchemesFailures == 1    \* provider / upload failures injected
SchemesWorkers == 2     \* jobs processed at the same time

\* the schemes of the store; Spec and SpecBatch work on the first one
SchemeIds == {1, 2}
OneScheme == {1}

(***************************************************************************)
(* Values                                                                  *)
(***************************************************************************)
\* null columns: audio_url / error_log = null, voice_name / tts_model = null
NoUrl == 0
NoLog == 0
FinalLog == -1       \* `最终失败: ${err.message}`
DeprecatedLog == -2  \* '任务被覆盖，标记为废弃'
AttemptLog(n) == n   \* `第 ${n} 次失败: ${errorMessage}`

NoDoc == <<>>        \* download_content null / ''
NoSnap == <<>>          \* no copy of download_content held
NoTaskId == 0
NoScheme == -1       \* tts_task_state of a scheme that has no row

VoiceName == "Kore"
Provider == "gemini"
BatchText == "text"
NewText == "newText"

VARIABLES
  tasks,       \* rows of sys_tts_task
  nextTaskId,  \* auto-increment of sys_tts_task.id
  ttsState,    \* sys_generate_scheme_manage.tts_task_state, per scheme
  document,    \* sys_generate_scheme_manage.download_content (parsed), per scheme
  jobs,        \* jobs of ttsQueue, with the position of the process() call
  nextJobId,   \* job id counter of the queue
  schemeLocks, \* per scheme: the promise chain of withLock, head = running
  calls,       \* API calls in flight or returned, with their position
  handlers,    \* bag of running checkSchemeTasks calls
  budget       \* what the environment may still do: API calls to start per
               \* operation, provider failures to inject, and the sizes of
               \* the worker pool and of the set of running event handlers

vars == <<tasks, nextTaskId, ttsState, document, jobs, nextJobId,
          schemeLocks, calls, handlers, budget>>

(***************************************************************************)
(* Store helpers                                                           *)
(***************************************************************************)
TasksOf(s) == {t \in tasks : t.scheme_id = s}

TasksAt(s, i, k) ==
  {t \in tasks : t.scheme_id = s /\ t.scheme_index = i /\ t.segment_key = k}

TaskById(id) == {t \in tasks : t.id = id}

CountStatus(s, st) == Cardinality({t \in TasksOf(s) : t.status = st})

\* position p (1..3n) of the nested loops of createTasks: item index, segment
KeyIndex(p) == (p - 1) \div 3
KeySegment(p) == segmentKeys[((p - 1) % 3) + 1]

NewTask(id, s, i, k, text, rc) ==
  [id |-> id, scheme_id |-> s, scheme_index |-> i, segment_key |-> k,
   text_content |-> text, status |-> PENDING, retry_count |-> rc,
   audio_url |-> NoUrl, error_log |-> NoLog, voice_name |-> "", tts_model |-> ""]

\* the data of queue.add; `by` records the call that added the job
NewJob(jid, taskId, text, s, i, k, voiceName, provider, by) ==
  [id |-> jid, taskId |-> taskId, text |-> text, schemeId |-> s,
   schemeIndex |-> i, segmentKey |-> k, voiceName |-> voiceName,
   provider |-> provider, by |-> by,
   state |-> "waiting", attemptsMade |-> 0, pc |-> "none", newRetryCount |-> 0]

Segment(b, m, e) ==
  [planNumber |-> 1, schemeContent |-> "content",
   beginAudioUrl |-> b, middleAudioUrl |-> m, endAudioUrl |-> e]

SetCall(c, d) == calls' = (calls \ {c}) \cup {d}

\* part_004:96-100  getJobs(['waiting', 'delayed', 'active'])
LiveJobs == {j \in jobs : j.state \in {"waiting", "delayed", "active"}}

NumHandlers == BagCardinality(handlers)

ReturnedPcs ==
  {"Ok", "Conflict", "NotFound", "ErrorLocked", "ErrorDuplicate",
   "ErrorMissing"}

\* nothing is in flight: every API call has returned, every job is completed
\* or failed for good, no lock operation and no event handler is running
Quiet ==
  /\ \A c \in calls : c.pc \in ReturnedPcs
  /\ LiveJobs = {}
  /\ \A s \in SchemeIds : schemeLocks[s] = <<>>
  /\ handlers = EmptyBag

(***************************************************************************)
(* createTasks (part_004:70-179)                                           *)
(***************************************************************************)
\* part_004:82-87  findFirst({scheme_id, status: PENDING})
HasPendingMutNone(s) == FALSE
HasPending(s) == \E t \in TasksOf(s) : t.status = PENDING

\* The request arrives and the conflict check runs (the arrival cannot be
\* observed, so it is one step with the first awaited query).
CreateStart(s, n, keepHistory) ==
  /\ IF keepHistory
       THEN budget.history > 0 /\ budget' = [budget EXCEPT !.history = @ - 1]
       ELSE budget.create > 0 /\ budget' = [budget EXCEPT !.create = @ - 1]
  /\ LET cid == Cardinality(calls) + 1
         c == [cid |-> cid, op |-> "create", schemeId |-> s, n |-> n,
               keepHistory |-> keepHistory, updates |-> <<>>,
               pc |-> IF HasPending(s) THEN "Conflict" ELSE "clearQueue",
               pos |-> 1, taskId |-> NoTaskId, count |-> 0,
               snap |-> NoSnap, voiceName |-> VoiceName,
               provider |-> Provider, text |-> BatchText,
               quiet |-> Quiet]
     IN calls' = calls \cup {c}
  /\ UNCHANGED <<tasks, nextTaskId, ttsState, document, jobs, nextJobId,
                 schemeLocks, handlers>>

\* part_004:96-107  getJobs(['waiting','delayed','active']) lists the waiting,
\* then the delayed, then the active jobs; job.remove() deletes a job that no
\* worker holds and throws for one a worker is processing, which ends the call.
CreateClearQueue(c) ==
  /\ c.op = "create" /\ c.pc = "clearQueue"
  /\ LET mine == {j \in LiveJobs : j.schemeId = c.schemeId}
         held == {j \in mine : j.state = "active"}
     IN /\ jobs' = jobs \ (mine \ held)
        /\ SetCall(c, [c EXCEPT !.pc = IF held = {} THEN "setProcessing"
                                                     ELSE "ErrorLocked"])
  /\ UNCHANGED <<tasks, nextTaskId, ttsState, document, nextJobId,
                 schemeLocks, handlers, budget>>

\* a row of sys_generate_scheme_manage with this id exists
SchemeExists(s) == ttsState[s] # NoScheme

\* part_004:112-115  update by id; throws when the scheme has no row
CreateSetProcessing(c) ==
  /\ c.op = "create" /\ c.pc = "setProcessing"
  /\ IF SchemeExists(c.schemeId)
       THEN /\ ttsState' = [ttsState EXCEPT ![c.schemeId] = PROCESSING]
            /\ SetCall(c, [c EXCEPT !.pc = "clearRead"])
       ELSE /\ UNCHANGED ttsState
            /\ SetCall(c, [c EXCEPT !.pc = "ErrorMissing"])
  /\ UNCHANGED <<tasks, nextTaskId, document, jobs, nextJobId,
                 schemeLocks, handlers, budget>>

ClearedDocMutKeepBegin(d) ==
  [x \in DOMAIN d |-> [d[x] EXCEPT !.middleAudioUrl = NoUrl,
                                   !.endAudioUrl = NoUrl]]

\* part_004:194-200  every item gets audioUrl = {'', '', ''}
ClearedDoc(d) ==
  [x \in DOMAIN d |-> [d[x] EXCEPT !.beginAudioUrl = NoUrl,
                                   !.middleAudioUrl = NoUrl,
                                   !.endAudioUrl = NoUrl]]

LoopEntry(c) == IF c.n = 0 THEN "Ok" ELSE "old"

\* part_004:185-200  clearAudioUrls reads download_content (no lock is taken)
\* and computes the cleared copy; without content nothing is written.
CreateClearRead(c) ==
  /\ c.op = "create" /\ c.pc = "clearRead"
  /\ IF document[c.schemeId] = NoDoc
       THEN SetCall(c, [c EXCEPT !.pc = LoopEntry(c)])
       ELSE SetCall(c, [c EXCEPT !.pc = "clearWrite",
                                 !.snap = ClearedDoc(document[c.schemeId])])
  /\ UNCHANGED <<tasks, nextTaskId, ttsState, document, jobs, nextJobId,
                 schemeLocks, handlers, budget>>

\* part_004:202-205  writes the copy computed from the earlier read
CreateClearWrite(c) ==
  /\ c.op = "create" /\ c.pc = "clearWrite"
  /\ document' = [document EXCEPT ![c.schemeId] = c.snap]
  /\ SetCall(c, [c EXCEPT !.pc = LoopEntry(c), !.snap = NoSnap])
  /\ UNCHANGED <<tasks, nextTaskId, ttsState, jobs, nextJobId,
                 schemeLocks, handlers, budget>>

\* part_004:212-231  updateMany: PENDING/SUCCESS/FAILED rows of the key
deprecateOldTasks(s, i, k) ==
  {IF t \in TasksAt(s, i, k) /\ t.status \in {PENDING, SUCCESS, FAILED}
     THEN [t EXCEPT !.status = DEPRECATED, !.error_log = DeprecatedLog]
     ELSE t : t \in tasks}

\* part_004:236-248  deleteMany: every row of the key
deleteOldTasks(s, i, k) == tasks \ TasksAt(s, i, k)

\* part_004:133-135 / 152-154
CreateOld(c) ==
  /\ c.op = "create" /\ c.pc = "old"
  /\ LET i == KeyIndex(c.pos)
         k == KeySegment(c.pos)
     IN tasks' = IF c.keepHistory THEN deprecateOldTasks(c.schemeId, i, k)
                                  ELSE deleteOldTasks(c.schemeId, i, k)
  /\ SetCall(c, [c EXCEPT !.pc = "new"])
  /\ UNCHANGED <<nextTaskId, ttsState, document, jobs, nextJobId,
                 schemeLocks, handlers, budget>>

\* the compound unique key of sys_tts_task (part_004:341, part_004:682)
UniqueKeyFreeMutAlways(s, i, k) == TRUE
UniqueKeyFree(s, i, k) == TasksAt(s, i, k) = {}

\* part_004:253-269  createNewTask; a duplicate key makes create throw
CreateNew(c) ==
  /\ c.op = "create" /\ c.pc = "new"
  /\ LET i == KeyIndex(c.pos)
         k == KeySegment(c.pos)
     IN IF UniqueKeyFree(c.schemeId, i, k)
          THEN /\ tasks' = tasks \cup
                     {NewTask(nextTaskId, c.schemeId, i, k, BatchText, 0)}
               /\ nextTaskId' = nextTaskId + 1
               /\ SetCall(c, [c EXCEPT !.pc = "enqueue",
                                       !.taskId = nextTaskId])
          ELSE /\ SetCall(c, [c EXCEPT !.pc = "ErrorDuplicate"])
               /\ UNCHANGED <<tasks, nextTaskId>>
  /\ UNCHANGED <<ttsState, document, jobs, nextJobId,
                 schemeLocks, handlers, budget>>

\* part_004:274-292  enqueueTask, then createdTasks.push and the next key
CreateEnqueue(c) ==
  /\ c.op = "create" /\ c.pc = "enqueue"
  /\ jobs' = jobs \cup {NewJob(nextJobId, c.taskId, BatchText, c.schemeId,
                               KeyIndex(c.pos), KeySegment(c.pos),
                               VoiceName, Provider, c.cid)}
  /\ nextJobId' = nextJobId + 1
  /\ SetCall(c, [c EXCEPT !.pc = IF c.pos = 3 * c.n THEN "Ok" ELSE "old",
                          !.pos = IF c.pos = 3 * c.n THEN @ ELSE @ + 1,
                          !.taskId = NoTaskId,
                          !.count = @ + 1])
  /\ UNCHANGED <<tasks, nextTaskId, ttsState, document,
                 schemeLocks, handlers, budget>>

CreateStep(c) ==
  \/ CreateClearQueue(c)
  \/ CreateSetProcessing(c)
  \/ CreateClearRead(c)
  \/ CreateClearWrite(c)
  \/ CreateOld(c)
  \/ CreateNew(c)
  \/ CreateEnqueue(c)

(***************************************************************************)
(* updateTasksExclusive (part_004:300-398)                                 *)
(***************************************************************************)
\* part_004:327-332  findFirst({scheme_id}) without orderBy: any row of the
\* scheme; voice_name / tts_model ?? ''
VoiceConfigs(s) ==
  IF TasksOf(s) = {} THEN {<<"", "">>}
                     ELSE {<<t.voice_name, t.tts_model>> : t \in TasksOf(s)}

\* part_004:313-332  the conflict check and the voice configuration query
UpdateStart(s, updates) ==
  /\ budget.update > 0
  /\ budget' = [budget EXCEPT !.update = @ - 1]
  /\ \E vc \in VoiceConfigs(s) :
       LET cid == Cardinality(calls) + 1
           conflict == HasPending(s)
           c == [cid |-> cid, op |-> "update", schemeId |-> s, n |-> 0,
                 keepHistory |-> FALSE, updates |-> updates,
                 pc |-> IF conflict THEN "Conflict"
                        ELSE IF updates = <<>> THEN "Ok" ELSE "find",
                 pos |-> 1, taskId |-> NoTaskId, count |-> 0,
                 snap |-> NoSnap,
                 voiceName |-> IF conflict THEN "" ELSE vc[1],
                 provider |-> IF conflict THEN "" ELSE vc[2],
                 text |-> NewText, quiet |-> Quiet]
       IN calls' = calls \cup {c}
  /\ UNCHANGED <<tasks, nextTaskId, ttsState, document, jobs, nextJobId,
                 schemeLocks, handlers>>

\* part_004:339-353  findUnique by the compound key, NotFound when absent
UpdateFind(c) ==
  /\ c.op = "update" /\ c.pc = "find"
  /\ LET key == c.updates[c.pos]
         found == TasksAt(c.schemeId, key[1], key[2])
     IN IF found = {}
          THEN SetCall(c, [c EXCEPT !.pc = "NotFound"])
          ELSE \E t \in found :
                 SetCall(c, [c EXCEPT !.pc = "update", !.taskId = t.id])
  /\ UNCHANGED <<tasks, nextTaskId, ttsState, document, jobs, nextJobId,
                 schemeLocks, handlers, budget>>

\* part_004:358-363  the data of the update
UpdateResetMutKeepAudio(t, newText) ==
  [t EXCEPT !.text_content = newText, !.retry_count = 0, !.status = PENDING]
UpdateReset(t, newText) ==
  [t EXCEPT !.text_content = newText,
            !.retry_count = 0,
            !.status = PENDING,
            !.audio_url = NoUrl]

\* part_004:356-364  update by id; throws when the row is gone
UpdateTask(c) ==
  /\ c.op = "update" /\ c.pc = "update"
  /\ IF TaskById(c.taskId) = {}
       THEN /\ SetCall(c, [c EXCEPT !.pc = "ErrorMissing"])
            /\ UNCHANGED tasks
       ELSE /\ tasks' = {IF t.id = c.taskId THEN UpdateReset(t, c.text)
                                            ELSE t : t \in tasks}
            /\ SetCall(c, [c EXCEPT !.pc = "setProcessing"])
  /\ UNCHANGED <<nextTaskId, ttsState, document, jobs, nextJobId,
                 schemeLocks, handlers, budget>>

\* part_004:367-370  update by id; throws when the scheme has no row
UpdateSetProcessing(c) ==
  /\ c.op = "update" /\ c.pc = "setProcessing"
  /\ IF SchemeExists(c.schemeId)
       THEN /\ ttsState' = [ttsState EXCEPT ![c.schemeId] = PROCESSING]
            /\ SetCall(c, [c EXCEPT !.pc = "enqueue"])
       ELSE /\ UNCHANGED ttsState
            /\ SetCall(c, [c EXCEPT !.pc = "ErrorMissing"])
  /\ UNCHANGED <<tasks, nextTaskId, document, jobs, nextJobId,
                 schemeLocks, handlers, budget>>

\* part_004:373-391  queue.add with jobId tts-<id>-<Date.now()>: a new job
UpdateEnqueue(c) ==
  /\ c.op = "update" /\ c.pc = "enqueue"
  /\ LET key == c.updates[c.pos]
     IN jobs' = jobs \cup {NewJob(nextJobId, c.taskId, c.text, c.schemeId,
                                  key[1], key[2], c.voiceName, c.provider,
                                  c.cid)}
  /\ nextJobId' = nextJobId + 1
  /\ SetCall(c, [c EXCEPT
                   !.pc = IF c.pos = Len(c.updates) THEN "Ok" ELSE "find",
                   !.pos = IF c.pos = Len(c.updates) THEN @ ELSE @ + 1,
                   !.taskId = NoTaskId,
                   !.count = @ + 1])
  /\ UNCHANGED <<tasks, nextTaskId, ttsState, document,
                 schemeLocks, handlers, budget>>

UpdateStep(c) ==
  \/ UpdateFind(c)
  \/ UpdateTask(c)
  \/ UpdateSetProcessing(c)
  \/ UpdateEnqueue(c)

(***************************************************************************)
(* retryFailedTasks (part_004:665-730)                                     *)
(***************************************************************************)
\* part_004:671-677  no conflict check; the loop starts
RetryStart(s, failedIndexes) ==
  /\ budget.retry > 0
  /\ budget' = [budget EXCEPT !.retry = @ - 1]
  /\ LET cid == Cardinality(calls) + 1
         c == [cid |-> cid, op |-> "retry", schemeId |-> s, n |-> 0,
               keepHistory |-> FALSE, updates |-> failedIndexes,
               pc |-> IF failedIndexes = <<>> THEN "Ok" ELSE "find",
               pos |-> 1, taskId |-> NoTaskId, count |-> 0,
               snap |-> NoSnap, voiceName |-> VoiceName,
               provider |-> Provider, text |-> "", quiet |-> Quiet]
     IN calls' = calls \cup {c}
  /\ UNCHANGED <<tasks, nextTaskId, ttsState, document, jobs, nextJobId,
                 schemeLocks, handlers>>

\* part_004:687-693  the update branch of the upsert
RetryResetMutKeepCount(t) ==
  [t EXCEPT !.status = PENDING, !.audio_url = NoUrl, !.error_log = NoLog]
RetryReset(t) ==
  [t EXCEPT !.status = PENDING,
            !.retry_count = @ + 1,
            !.audio_url = NoUrl,
            !.error_log = NoLog]

\* part_004:694-701  the create branch of the upsert: an empty placeholder
RetryPlaceholderMutFailed(id, s, i, k) ==
  [NewTask(id, s, i, k, "", 1) EXCEPT !.status = FAILED]
RetryPlaceholder(id, s, i, k) == NewTask(id, s, i, k, "", 1)

\* part_004:717-723  the catch block logs and the loop goes on with the next
\* key; retriedCount is not increased
RetryNext(c) ==
  [c EXCEPT !.pc = IF c.pos = Len(c.updates) THEN "Ok" ELSE "find",
            !.pos = IF c.pos = Len(c.updates) THEN @ ELSE @ + 1,
            !.taskId = NoTaskId]

\* part_004:680-686  upsert by the compound key.  On MySQL (README.md:11) the
\* client runs an upsert as a read followed by an update or a create; this is
\* the read.
RetryFind(c) ==
  /\ c.op = "retry" /\ c.pc = "find"
  /\ LET key == c.updates[c.pos]
         found == TasksAt(c.schemeId, key[1], key[2])
     IN \/ /\ found = {}
           /\ SetCall(c, [c EXCEPT !.pc = "upsert", !.taskId = NoTaskId])
        \/ \E t \in found :
             SetCall(c, [c EXCEPT !.pc = "upsert", !.taskId = t.id])
  /\ UNCHANGED <<tasks, nextTaskId, ttsState, document, jobs, nextJobId,
                 schemeLocks, handlers, budget>>

\* part_004:687-702  the write of the upsert.  The create branch throws when
\* the key has been taken since the read, the update branch when the row read
\* is gone; a row put at the key since the read is updated or not, depending
\* on how the client addresses the row.  A throw lands in the catch block.
RetryUpsert(c) ==
  /\ c.op = "retry" /\ c.pc = "upsert"
  /\ LET key == c.updates[c.pos]
         found == TasksAt(c.schemeId, key[1], key[2])
     IN IF c.taskId = NoTaskId
          THEN IF UniqueKeyFree(c.schemeId, key[1], key[2])
                 THEN /\ tasks' = tasks \cup
                           {RetryPlaceholder(nextTaskId, c.schemeId,
                                             key[1], key[2])}
                      /\ nextTaskId' = nextTaskId + 1
                      /\ SetCall(c, [c EXCEPT !.pc = "enqueue",
                                              !.taskId = nextTaskId,
                                              !.text = ""])
                 ELSE /\ SetCall(c, RetryNext(c))
                      /\ UNCHANGED <<tasks, nextTaskId>>
          ELSE \/ \E t \in found :
                    /\ tasks' = (tasks \ {t}) \cup {RetryReset(t)}
                    /\ UNCHANGED nextTaskId
                    /\ SetCall(c, [c EXCEPT !.pc = "enqueue",
                                            !.taskId = t.id,
                                            !.text = t.text_content])
               \/ /\ TaskById(c.taskId) = {}
                  /\ SetCall(c, RetryNext(c))
                  /\ UNCHANGED <<tasks, nextTaskId>>
  /\ UNCHANGED <<ttsState, document, jobs, nextJobId,
                 schemeLocks, handlers, budget>>

\* part_004:705-715  queue.add, retriedCount++
RetryEnqueue(c) ==
  /\ c.op = "retry" /\ c.pc = "enqueue"
  /\ LET key == c.updates[c.pos]
     IN jobs' = jobs \cup {NewJob(nextJobId, c.taskId, c.text, c.schemeId,
                                  key[1], key[2], c.voiceName, c.provider,
                                  c.cid)}
  /\ nextJobId' = nextJobId + 1
  /\ SetCall(c, [RetryNext(c) EXCEPT !.count = @ + 1])
  /\ UNCHANGED <<tasks, nextTaskId, ttsState, document,
                 schemeLocks, handlers, budget>>

RetryStep(c) ==
  \/ RetryFind(c)
  \/ RetryUpsert(c)
  \/ RetryEnqueue(c)

(***************************************************************************)
(* TtsTaskProcessor.process (tts.processor.ts:46-131)                      *)
(***************************************************************************)
SetJob(j, d) == jobs' = (jobs \ {j}) \cup {d}

ActiveJobs == {j \in jobs : j.state = "active"}

\* the queue hands out the oldest waiting job; a delayed job comes back when
\* its backoff has passed, which may be at any time
Deliverable(j) ==
  \/ /\ j.state = "waiting"
     /\ \A o \in jobs : o.state = "waiting" => j.id <= o.id
  \/ j.state = "delayed"

\* tts.processor.ts:118  (currentTask?.retry_count || 0) + 1
NewRetryCount(taskId) ==
  IF TaskById(taskId) = {} THEN 1
  ELSE (CHOOSE t \in TaskById(taskId) : TRUE).retry_count + 1

\* tts.processor.ts:63-69  findUnique by id, `if (!existingTask) throw`
existingTaskMutAlways(taskId) == TRUE
existingTask(taskId) == TaskById(taskId) # {}

\* tts.processor.ts:63-75  the job is delivered; the Task must exist, then
\* voice_name / tts_model are stored.  A missing Task throws into the catch
\* block, whose first query (113-118) finds no row.
Deliver(j) ==
  /\ j \in jobs /\ Deliverable(j)
  /\ Cardinality(ActiveJobs) < budget.workers
  /\ budget.deliveries > 0
  /\ budget' = [budget EXCEPT !.deliveries = @ - 1]
  /\ IF ~existingTask(j.taskId)
       THEN /\ SetJob(j, [j EXCEPT !.state = "active", !.pc = "catchWrite",
                                   !.newRetryCount = 1])
            /\ UNCHANGED tasks
       ELSE /\ tasks' = {IF t.id = j.taskId
                           THEN [t EXCEPT !.voice_name = j.voiceName,
                                          !.tts_model = j.provider]
                           ELSE t : t \in tasks}
            /\ SetJob(j, [j EXCEPT !.state = "active", !.pc = "generate"])
  /\ UNCHANGED <<nextTaskId, ttsState, document, nextJobId, schemeLocks,
                 calls, handlers>>

\* the URL of `${uuid()}.wav`: one per successful generation, here the job id
AudioUrlOf(j) == j.id

\* part_004:53-57  `prev.then(fn)` with prev the promise stored last: the new
\* operation is chained behind every operation submitted before it
SubmitMutFront(chain, op) == <<op>> \o chain
Submit(chain, op) == Append(chain, op)

\* tts.processor.ts:78-102 and part_004:49-59  generation and upload return a
\* URL, the Task is written as SUCCESS and updateSegmentAudio appends its
\* operation to the scheme's promise chain (withLock runs synchronously up to
\* `await next`).  If the Task row is gone the update throws into the catch.
GenerateOk(j) ==
  /\ j \in jobs /\ j.state = "active" /\ j.pc = "generate"
  /\ IF TaskById(j.taskId) = {}
       THEN /\ SetJob(j, [j EXCEPT !.pc = "catchWrite", !.newRetryCount = 1])
            /\ UNCHANGED <<tasks, schemeLocks>>
       ELSE /\ tasks' = {IF t.id = j.taskId
                           THEN [t EXCEPT !.status = SUCCESS,
                                          !.audio_url = AudioUrlOf(j),
                                          !.retry_count = 0,
                                          !.error_log = NoLog]
                           ELSE t : t \in tasks}
            /\ schemeLocks' = [schemeLocks EXCEPT ![j.schemeId] =
                 Submit(@, [job |-> j.id, schemeIndex |-> j.schemeIndex,
                            segmentKey |-> j.segmentKey,
                            audioUrl |-> AudioUrlOf(j), snap |-> NoSnap])]
            /\ SetJob(j, [j EXCEPT !.pc = "locked"])
  /\ UNCHANGED <<nextTaskId, ttsState, document, nextJobId,
                 calls, handlers, budget>>

\* tts.processor.ts:78-83, 108-118  generation or upload fails; the catch
\* block reads retry_count
GenerateFail(j) ==
  /\ j \in jobs /\ j.state = "active" /\ j.pc = "generate"
  /\ budget.failures > 0
  /\ budget' = [budget EXCEPT !.failures = @ - 1]
  /\ SetJob(j, [j EXCEPT !.pc = "catchWrite",
                         !.newRetryCount = NewRetryCount(j.taskId)])
  /\ UNCHANGED <<tasks, nextTaskId, ttsState, document, nextJobId,
                 schemeLocks, calls, handlers>>

\* tts.processor.ts:120-129  the Task is written back as PENDING with the
\* count read before; then the error is thrown again
CatchWrite(j) ==
  /\ j \in jobs /\ j.state = "active" /\ j.pc = "catchWrite"
  /\ tasks' = {IF t.id = j.taskId
                 THEN [t EXCEPT !.status = PENDING,
                                !.retry_count = j.newRetryCount,
                                !.error_log = AttemptLog(j.newRetryCount)]
                 ELSE t : t \in tasks}
  /\ SetJob(j, [j EXCEPT !.pc = "thrown", !.newRetryCount = 0])
  /\ UNCHANGED <<nextTaskId, ttsState, document, nextJobId, schemeLocks,
                 calls, handlers, budget>>

(***************************************************************************)
(* checkSchemeTasks and the worker events (tts.processor.ts:137-213)       *)
(***************************************************************************)
NewHandler(s) ==
  [schemeId |-> s, pc |-> "countPending", failedCount |-> 0,
   finalState |-> IDLE]

AddHandler(h) == handlers' = handlers (+) SetToBag({h})
DropHandler(h) == handlers' = handlers (-) SetToBag({h})
MoveHandler(h, g) == handlers' = (handlers (-) SetToBag({h})) (+) SetToBag({g})

\* tts.module.ts:32-38  a job is retried until `attempts` attempts were made
RetriesLeft(made) == made < attempts

\* The attempt threw: the queue re-queues the job or marks it failed, and the
\* worker emits 'failed'.  tts.processor.ts:198-212  onFailed writes the Task
\* as FAILED (the query is issued synchronously by the listener) and calls
\* checkSchemeTasks; if the Task row is gone the update throws and
\* checkSchemeTasks is not reached.
JobFailed(j) ==
  /\ j \in jobs /\ j.state = "active" /\ j.pc = "thrown"
  /\ SetJob(j, [j EXCEPT !.attemptsMade = @ + 1, !.pc = "none",
                  !.state = IF RetriesLeft(j.attemptsMade + 1)
                              THEN "delayed" ELSE "failed"])
  /\ IF TaskById(j.taskId) = {}
       THEN UNCHANGED <<tasks, handlers>>
       ELSE /\ NumHandlers < budget.handlers
            /\ tasks' = {IF t.id = j.taskId
                           THEN [t EXCEPT !.status = FAILED,
                                          !.error_log = FinalLog]
                           ELSE t : t \in tasks}
            /\ AddHandler(NewHandler(j.schemeId))
  /\ UNCHANGED <<nextTaskId, ttsState, document, nextJobId, schemeLocks,
                 calls, budget>>

\* process() returned: the job is completed and the worker emits
\* 'completed'; tts.processor.ts:188-192 onCompleted calls checkSchemeTasks
JobCompleted(j) ==
  /\ NumHandlers < budget.handlers
  /\ SetJob(j, [j EXCEPT !.attemptsMade = @ + 1, !.pc = "none",
                         !.state = "completed"])
  /\ AddHandler(NewHandler(j.schemeId))

JobOfOp(op) == CHOOSE j \in jobs : j.id = op.job

\* part_004:511-512  only the field named by the segment key is assigned
SetAudioField(seg, k, url) ==
  IF k = "begin" THEN [seg EXCEPT !.beginAudioUrl = url]
  ELSE IF k = "middle" THEN [seg EXCEPT !.middleAudioUrl = url]
  ELSE [seg EXCEPT !.endAudioUrl = url]

\* part_004:53-57  `prev.then(fn)`: an operation starts when the one queued
\* before it has settled, so only the head of the chain runs
RunnableOpsMutAll(s) == DOMAIN schemeLocks[s]
RunnableOpsMutShared(s) ==
  IF \/ schemeLocks[s] = <<>>
     \/ \E o \in DOMAIN schemeLocks \ {s} :
          schemeLocks[o] # <<>> /\ schemeLocks[o][1].snap # NoSnap
    THEN {}
    ELSE {1}
RunnableOps(s) == IF schemeLocks[s] = <<>> THEN {} ELSE {1}

RemoveAt(seq, p) == SubSeq(seq, 1, p - 1) \o SubSeq(seq, p + 1, Len(seq))

\* part_004:469-497  what the locked function does after its read: without
\* scheme row it throws, without download_content it returns, with an index
\* outside the document it throws, otherwise it goes on to the write
ReadOutcome(s, op) ==
  IF ~SchemeExists(s) THEN "throws"
  ELSE IF document[s] = NoDoc THEN "returns"
  ELSE IF op.schemeIndex + 1 > Len(document[s]) THEN "throws"
  ELSE "writes"

\* part_004:54-58  `.catch` logs the error of the locked function, so the
\* promise that updateSegmentAudio awaits is fulfilled whatever the function did
withLockMutNoCatch(outcome) ==
  IF outcome = "throws" THEN "rejected" ELSE "fulfilled"
withLock(outcome) == "fulfilled"

\* part_004:469-512  a running operation reads download_content.  When it
\* returns or throws the operation is over and process() goes on behind
\* `await updateSegmentAudio` (a rejection would land in its catch block).
\* Otherwise the changed copy is computed from what was read (no await lies
\* between the read and the assignment).
LockRead(s, p) ==
  /\ p \in RunnableOps(s)
  /\ LET op == schemeLocks[s][p]
         doc == document[s]
     IN /\ op.snap = NoSnap
        /\ IF ReadOutcome(s, op) # "writes"
             THEN /\ schemeLocks' = [schemeLocks EXCEPT ![s] = RemoveAt(@, p)]
                  /\ IF withLock(ReadOutcome(s, op)) = "fulfilled"
                       THEN JobCompleted(JobOfOp(op))
                       ELSE /\ SetJob(JobOfOp(op),
                                      [JobOfOp(op) EXCEPT
                                         !.pc = "catchWrite",
                                         !.newRetryCount =
                                            NewRetryCount(JobOfOp(op).taskId)])
                            /\ UNCHANGED handlers
             ELSE /\ schemeLocks' = [schemeLocks EXCEPT ![s][p].snap =
                       [doc EXCEPT ![op.schemeIndex + 1] =
                          SetAudioField(@, op.segmentKey, op.audioUrl)]]
                  /\ UNCHANGED <<jobs, handlers>>
  /\ UNCHANGED <<tasks, nextTaskId, ttsState, document, nextJobId,
                 calls, budget>>

\* part_004:515-518  the whole copy is written back; the operation settles,
\* the chain moves on and process() returns
LockWrite(s, p) ==
  /\ p \in RunnableOps(s)
  /\ LET op == schemeLocks[s][p]
     IN /\ op.snap # NoSnap
        /\ document' = [document EXCEPT ![s] = op.snap]
        /\ schemeLocks' = [schemeLocks EXCEPT ![s] = RemoveAt(@, p)]
        /\ JobCompleted(JobOfOp(op))
  /\ UNCHANGED <<tasks, nextTaskId, ttsState, nextJobId, calls, budget>>

\* tts.processor.ts:139-146
CountPending(h) ==
  /\ BagIn(h, handlers) /\ h.pc = "countPending"
  /\ IF CountStatus(h.schemeId, PENDING) > 0
       THEN DropHandler(h)
       ELSE MoveHandler(h, [h EXCEPT !.pc = "countFailed"])
  /\ UNCHANGED <<tasks, nextTaskId, ttsState, document, jobs, nextJobId,
                 schemeLocks, calls, budget>>

\* tts.processor.ts:149-151
CountFailed(h) ==
  /\ BagIn(h, handlers) /\ h.pc = "countFailed"
  /\ MoveHandler(h, [h EXCEPT !.pc = "countSuccess",
                              !.failedCount = CountStatus(h.schemeId, FAILED)])
  /\ UNCHANGED <<tasks, nextTaskId, ttsState, document, jobs, nextJobId,
                 schemeLocks, calls, budget>>

\* tts.processor.ts:167-168
FinalStateMutSuccess(failedCount) == SCHEME_SUCCESS
FinalState(failedCount) ==
  IF failedCount > 0 THEN SCHEME_FAILED ELSE SCHEME_SUCCESS

\* tts.processor.ts:153-168
CountSuccess(h) ==
  /\ BagIn(h, handlers) /\ h.pc = "countSuccess"
  /\ LET successCount == CountStatus(h.schemeId, SUCCESS)
     IN IF h.failedCount + successCount = 0
          THEN DropHandler(h)
          ELSE MoveHandler(h, [h EXCEPT !.pc = "write", !.failedCount = 0,
                                 !.finalState = FinalState(h.failedCount)])
  /\ UNCHANGED <<tasks, nextTaskId, ttsState, document, jobs, nextJobId,
                 schemeLocks, calls, budget>>

\* tts.processor.ts:171-174  update by id; when the scheme has no row it
\* throws and the run ends
WriteState(h) ==
  /\ BagIn(h, handlers) /\ h.pc = "write"
  /\ ttsState' = IF SchemeExists(h.schemeId)
                   THEN [ttsState EXCEPT ![h.schemeId] = h.finalState]
                   ELSE ttsState
  /\ DropHandler(h)
  /\ UNCHANGED <<tasks, nextTaskId, document, jobs, nextJobId,
                 schemeLocks, calls, budget>>

(***************************************************************************)
(* getOverallStatus (part_004:590-655)                                     *)
(***************************************************************************)
\* part_004:612-628  the switch: SUCCESS, FAILED, default
unfinishedCountMutPending(s) == CountStatus(s, PENDING)
unfinishedCount(s) ==
  Cardinality({t \in TasksOf(s) : t.status \notin {SUCCESS, FAILED}})

\* part_004:631-638
overallStatus(s) ==
  IF unfinishedCount(s) > 0 THEN "unfinished"
  ELSE IF CountStatus(s, FAILED) > 0 THEN "failed"
  ELSE "success"

\* part_004:607-609, 640-654
getOverallStatus(s) ==
  IF TasksOf(s) = {} THEN [error |-> "BadRequest"]
  ELSE [overall |-> overallStatus(s),
        stats |-> [success |-> CountStatus(s, SUCCESS),
                   failed |-> CountStatus(s, FAILED),
                   unfinished |-> unfinishedCount(s),
                   total |-> Cardinality(TasksOf(s))]]

(***************************************************************************)
(* Inputs and specifications                                               *)
(***************************************************************************)
\* a key no batch of at most MaxItems items creates
MissingKey == <<MaxItems, "begin">>

UpdateInputs ==
  {<<>>, <<<<0, "begin">>>>, <<<<0, "begin">>, MissingKey>>}

RetryInputs ==
  {<<<<0, "begin">>>>, <<MissingKey>>}

Budget(c, k, u, r, d, f, w, h) ==
  [create |-> c, history |-> k, update |-> u, retry |-> r, deliveries |-> d,
   failures |-> f, workers |-> w, handlers |-> h]

EmptyDoc == [x \in 1..DocLen |-> Segment(NoUrl, NoUrl, NoUrl)]

InitStore ==
  /\ tasks = {}
  /\ nextTaskId = 1
  /\ ttsState = [s \in SchemeIds |-> IDLE]
  /\ document = [s \in SchemeIds |-> EmptyDoc]
  /\ jobs = {}
  /\ nextJobId = 1
  /\ schemeLocks = [s \in SchemeIds |-> <<>>]
  /\ calls = {}
  /\ handlers = EmptyBag

\* MaxCalls API calls, the first of them a createTasks in overwrite mode.  Two
\* racing createTasks calls are followed for RaceDeliveries job deliveries, a
\* batch followed by an update or a retry for SeqDeliveries.
ApiBudgets ==
  {Budget(b.create, b.history, b.update, b.retry,
          IF b.update + b.retry > 0 THEN SeqDeliveries ELSE RaceDeliveries,
          ApiFailures, ApiWorkers, ApiHandlers) :
     b \in {x \in [create : 1..MaxCalls, history : 0..MaxCalls,
                   update : 0..MaxCalls, retry : 0..MaxCalls] :
              x.create + x.history + x.update + x.retry = MaxCalls}}

Init ==
  /\ InitStore
  /\ budget \in ApiBudgets

LockStep ==
  \E s \in SchemeIds : \E p \in RunnableOps(s) : LockRead(s, p) \/ LockWrite(s, p)

WorkerStep ==
  \E j \in jobs :
    \/ Deliver(j)
    \/ GenerateOk(j)
    \/ GenerateFail(j)
    \/ CatchWrite(j)
    \/ JobFailed(j)

HandlerStep ==
  \E h \in BagToSet(handlers) :
    \/ CountPending(h)
    \/ CountFailed(h)
    \/ CountSuccess(h)
    \/ WriteState(h)

ApiStart ==
  \/ \E s \in OneScheme :
       \/ \E n \in 1..MaxItems, kh \in BOOLEAN : CreateStart(s, n, kh)
       \/ \E u \in UpdateInputs : UpdateStart(s, u)
  \/ \E s \in SchemeIds : \E r \in RetryInputs : RetryStart(s, r)

ApiStep == \E c \in calls : CreateStep(c) \/ UpdateStep(c) \/ RetryStep(c)

Next == ApiStart \/ ApiStep \/ WorkerStep \/ LockStep \/ HandlerStep

\* concurrent API calls on one scheme (retryFailedTasks on either scheme), with
\* the worker and the event handlers
Spec == Init /\ [][Next]_vars

\* one createTasks call in overwrite mode on a scheme without Tasks, and the
\* queue working the batch off with up to MaxFailures failed attempts
InitBatch ==
  /\ InitStore
  /\ budget = Budget(1, 0, 0, 0, 3 * MaxItems + MaxFailures, MaxFailures,
                     Concurrency, MaxHandlers)

BatchStart ==
  \E s \in OneScheme : \E n \in 0..MaxItems : CreateStart(s, n, FALSE)

BatchStep == \E c \in calls : CreateStep(c)

NextBatch == BatchStart \/ BatchStep \/ WorkerStep \/ LockStep \/ HandlerStep

SpecBatch == InitBatch /\ [][NextBatch]_vars

\* a scheme has a row with a document, a row without download_content, or no
\* row at all (the first scheme has a row)
SchemeKinds == {"document", "empty", "missing"}

InitSchemes ==
  /\ tasks = {}
  /\ nextTaskId = 1
  /\ \E kind \in [SchemeIds -> SchemeKinds] :
       /\ \E s \in OneScheme : kind[s] # "missing"
       /\ ttsState = [s \in SchemeIds |->
                        IF kind[s] = "missing" THEN NoScheme ELSE IDLE]
       /\ document = [s \in SchemeIds |->
                        IF kind[s] = "document" THEN EmptyDoc ELSE NoDoc]
  /\ jobs = {}
  /\ nextJobId = 1
  /\ schemeLocks = [s \in SchemeIds |-> <<>>]
  /\ calls = {}
  /\ handlers = EmptyBag
  /\ budget = Budget(1, 0, 0, SchemesRetries, SchemesDeliveries,
                     SchemesFailures, SchemesWorkers, 1)

\* the client makes its calls one after the other
SchemesStart ==
  /\ \A c \in calls : c.pc \in ReturnedPcs
  /\ \E s \in SchemeIds :
       \/ \E n \in 1..MaxItems : CreateStart(s, n, FALSE)
       \/ \E r \in RetryInputs : RetryStart(s, r)

SchemesStep == \E c \in calls : CreateStep(c) \/ RetryStep(c)

NextSchemes ==
  SchemesStart \/ SchemesStep \/ WorkerStep \/ LockStep \/ HandlerStep

\* one createTasks call and SchemesRetries retryFailedTasks calls made one
\* after the other, each on either of two schemes of any kind, with the worker
\* and the event handlers
SpecSchemes == InitSchemes /\ [][NextSchemes]_vars


\* retryFailedTasks calls only, made one after the other
InitChain ==
  /\ InitSchemes!1 /\ InitSchemes!2 /\ InitSchemes!3 /\ InitSchemes!4
  /\ InitSchemes!5 /\ InitSchemes!6 /\ InitSchemes!7 /\ InitSchemes!8
  /\ budget = Budget(0, 0, 0, SchemesRetries, SchemesDeliveries,
                     SchemesFailures, SchemesWorkers, 1)

ChainStart ==
  /\ \A c \in calls : c.pc \in ReturnedPcs
  /\ \E s \in SchemeIds : \E r \in RetryInputs : RetryStart(s, r)

ChainStep == \E c \in calls : RetryStep(c)

NextChain == ChainStart \/ ChainStep \/ WorkerStep \/ LockStep \/ HandlerStep

\* the event loop runs every continuation that is ready: an operation at the
\* head of a chain and a running event handler are not postponed for ever
SpecChain ==
  InitChain /\ [][NextChain]_vars /\ WF_vars(LockStep) /\ WF_vars(HandlerStep)

(***************************************************************************)
(* Properties                                                              *)
(***************************************************************************)
PendingTasks(s) == {t \in TasksOf(s) : t.status = PENDING}

\* C1: a createTasks call on a scheme that has a Pending Task is rejected with
\* Conflict, and neither the rejecting step nor any later step of that call
\* changes a Task, a Job, the queue, the scheme state or the document.
C1_ConflictNoSideEffects ==
  [][/\ \A c \in calls' :
          ( /\ c.cid \notin {d.cid : d \in calls}
            /\ c.op = "create"
            /\ PendingTasks(c.schemeId) # {} ) =>
             /\ c.pc = "Conflict"
             /\ UNCHANGED <<tasks, nextTaskId, ttsState, document, jobs,
                            nextJobId, schemeLocks, handlers>>
     /\ \A c \in calls : c.pc = "Conflict" => c \in calls']_vars

C1_Witness ==
  \E c \in calls :
    c.op = "create" /\ c.pc = "Conflict" /\ PendingTasks(c.schemeId) # {}

\* Tasks a running call has made Pending so far
MadePending(c) ==
  c.count + (IF c.pc \in {"enqueue", "setProcessing"} THEN 1 ELSE 0)

\* C2: under every interleaving of createTasks and updateTasksExclusive calls
\* with each other and with the worker, a call that has passed its pending
\* check never runs next to Pending Tasks of the scheme other than the ones it
\* made Pending itself (no call of retryFailedTasks taking part).
C2_OneBatchInFlight ==
  \A c \in calls :
    ( /\ \A d \in calls : d.op # "retry"
      /\ c.op \in {"create", "update"}
      /\ c.pc \notin ReturnedPcs )
    => Cardinality(PendingTasks(c.schemeId)) <= MadePending(c)

\* C3: in every reachable state a key (scheme, index, segment) has at most one
\* Pending Task.
C3_OnePendingPerKey ==
  \A t1 \in tasks : \A t2 \in tasks :
    ( /\ t1.scheme_id = t2.scheme_id
      /\ t1.scheme_index = t2.scheme_index
      /\ t1.segment_key = t2.segment_key
      /\ t1.status = PENDING
      /\ t2.status = PENDING ) => t1 = t2

C3_Witness ==
  \E c \in calls :
    /\ c.pc = "ErrorDuplicate"
    /\ \E t \in TasksAt(c.schemeId, KeyIndex(c.pos), KeySegment(c.pos)) :
         t.status = PENDING

AudioField(seg, k) ==
  IF k = "begin" THEN seg.beginAudioUrl
  ELSE IF k = "middle" THEN seg.middleAudioUrl
  ELSE seg.endAudioUrl

Holders(s) ==
  Cardinality({c \in calls : c.schemeId = s /\ c.pc = "clearWrite"})
    + Cardinality({p \in DOMAIN schemeLocks[s] : schemeLocks[s][p].snap # NoSnap})

\* C5: every write of the document, by createTasks' reset and by
\* updateSegmentAudio, is serialised: no write happens while another call holds
\* a copy of the document it read earlier.
C5_WritesSerialised ==
  [][\A s \in SchemeIds : document'[s] # document[s] => Holders(s) <= 1]_vars

FailedTasks(s) == {t \in TasksOf(s) : t.status = FAILED}

\* C6: once a batch has been created and all its jobs and event handlers are
\* done, the scheme state is Failed if and only if the scheme has a Failed
\* Task, and Success otherwise.
C6_FinalState ==
  \A c \in calls :
    (Quiet /\ c.op = "create" /\ c.pc = "Ok" /\ c.n >= 1) =>
       ttsState[c.schemeId] =
         IF FailedTasks(c.schemeId) # {} THEN SCHEME_FAILED ELSE SCHEME_SUCCESS

\* C7: for a scheme with at least one Task and no Pending Task,
\* getOverallStatus answers "failed" if and only if a Task is Failed, and
\* "success" otherwise, Deprecated Tasks included.
C7_OverallIffFailed ==
  \A s \in SchemeIds :
    (TasksOf(s) # {} /\ PendingTasks(s) = {}) =>
       getOverallStatus(s).overall =
         IF FailedTasks(s) # {} THEN "failed" ELSE "success"

ExhaustedJobs(s) == {j \in jobs : j.schemeId = s /\ j.state = "failed"}

\* C8: a createTasks call in overwrite mode with N items, made on a scheme
\* where nothing is in flight, of whose 3N jobs f exhaust their attempts and
\* the others succeed, leaves getOverallStatus with the statistics
\* {success: 3N - f, failed: f, unfinished: 0, total: 3N}.
C8_BatchStats ==
  \A c \in calls :
    ( /\ c.op = "create" /\ ~c.keepHistory /\ c.quiet /\ c.pc = "Ok"
      /\ c.n >= 1
      /\ \A d \in calls : d.cid <= c.cid
      /\ Quiet )
    => LET f == Cardinality(ExhaustedJobs(c.schemeId))
       IN getOverallStatus(c.schemeId).stats =
            [success |-> 3 * c.n - f, failed |-> f, unfinished |-> 0,
             total |-> 3 * c.n]

\* C9: every batch terminates: when a createTasks or updateTasksExclusive
\* call has returned normally and nothing is left in flight, the scheme has
\* left Processing for Success or Failed.
C9_BatchTerminates ==
  \A c \in calls :
    (Quiet /\ c.op \in {"create", "update"} /\ c.pc = "Ok"
       /\ (c.op = "create" \/ c.count > 0)) =>
       ttsState[c.schemeId] \in {SCHEME_SUCCESS, SCHEME_FAILED}

\* C10: an updateTasksExclusive call that answers NotFound has changed no Task
\* row and enqueued no job, entries before the missing one included.
C10_NotFoundNoMutation ==
  \A c \in calls : (c.op = "update" /\ c.pc = "NotFound") => c.count = 0

\* C11: updateSegmentAudio with a schemeIndex outside the document fails
\* visibly to its caller: process() does not return normally, so the job of
\* such a call is never completed.
C11_OutOfRangeFails ==
  \A j \in jobs :
    j.state = "completed" => j.schemeIndex < Len(document[j.schemeId])

\* C12: retryFailedTasks on a key whose Task is Success resets that Task to
\* Pending with retry_count one higher and audio_url and error_log cleared,
\* leaves every other Task as it is, and then adds exactly one job for it.
C12_RetryOfSuccess ==
  [][\A c \in calls : \A d \in calls' :
       (c.op = "retry" /\ d.cid = c.cid) =>
          /\ (c.pc = "upsert" /\ d.pc = "enqueue") =>
                \A t \in TasksAt(c.schemeId, c.updates[c.pos][1],
                                 c.updates[c.pos][2]) :
                  t.status = SUCCESS =>
                    tasks' = (tasks \ {t}) \cup
                      {[t EXCEPT !.status = PENDING,
                                 !.retry_count = t.retry_count + 1,
                                 !.audio_url = NoUrl,
                                 !.error_log = NoLog]}
          /\ (c.pc = "enqueue" /\ d.pc # "enqueue") =>
                /\ tasks' = tasks
                /\ \E j \in jobs' \ jobs :
                     /\ jobs' = jobs \cup {j}
                     /\ j.taskId = c.taskId
                     /\ j.state = "waiting"]_vars

\* a retry call has reset a Task that a completed job had made Success
C12_Witness ==
  \E c \in calls : \E t \in tasks :
    /\ c.op = "retry" /\ c.pc = "enqueue" /\ t.id = c.taskId
    /\ t.status = PENDING /\ t.retry_count = 1 /\ t.audio_url = NoUrl
    /\ \E j \in jobs : j.taskId = t.id /\ j.state = "completed"

\* C13: when a createTasks call with N >= 1 items returns normally it has
\* counted 3N Tasks, and at that moment the scheme has exactly 3N Tasks, one
\* per key of the batch, each Pending with retry_count 0 and exactly one job,
\* and the scheme state is Processing.
C13_BatchCreated ==
  [][\A c \in calls' :
       (c.op = "create" /\ c.pc = "Ok" /\ c.n >= 1 /\ c \notin calls) =>
          LET ts == {t \in tasks' : t.scheme_id = c.schemeId}
          IN /\ c.count = 3 * c.n
             /\ Cardinality(ts) = 3 * c.n
             /\ \A i \in 0..(c.n - 1) : \A p \in 1..Len(segmentKeys) :
                  \E t \in ts :
                    /\ t.scheme_index = i /\ t.segment_key = segmentKeys[p]
                    /\ t.status = PENDING /\ t.retry_count = 0
                    /\ Cardinality({j \in jobs' : j.taskId = t.id}) = 1
             /\ ttsState'[c.schemeId] = PROCESSING]_vars

\* C14: every step of an updateTasksExclusive call changes only what the
\* entry it works on names: the Task of the entry gets the new text,
\* retry_count 0, status Pending and no audio_url while all other Tasks stay
\* as they are, the scheme is set to Processing, and exactly one job is added
\* per entry; a call that returns normally has done so for every entry.
C14_UpdateFrame ==
  [][\A c \in calls : \A d \in calls' :
       (c.op = "update" /\ d.cid = c.cid /\ d # c) =>
          /\ (c.pc = "update" /\ d.pc = "setProcessing") =>
                \E t \in TasksAt(c.schemeId, c.updates[c.pos][1],
                                 c.updates[c.pos][2]) :
                  /\ t.id = c.taskId
                  /\ tasks' = (tasks \ {t}) \cup
                       {[t EXCEPT !.text_content = NewText,
                                  !.retry_count = 0,
                                  !.status = PENDING,
                                  !.audio_url = NoUrl]}
          /\ c.pc # "update" => tasks' = tasks
          /\ c.pc = "setProcessing" =>
                ttsState' = [ttsState EXCEPT ![c.schemeId] = PROCESSING]
          /\ c.pc # "setProcessing" => ttsState' = ttsState
          /\ c.pc = "enqueue" =>
                /\ d.count = c.count + 1
                /\ \E j \in jobs' \ jobs :
                     /\ jobs' = jobs \cup {j}
                     /\ j.taskId = c.taskId /\ j.text = NewText
                     /\ j.state = "waiting"
          /\ c.pc # "enqueue" => (jobs' = jobs /\ d.count = c.count)
          /\ d.pc = "Ok" => d.count = Len(d.updates)]_vars

\* an update call has returned normally after resetting a Task that was
\* Success
C14_Witness ==
  \E c \in calls : \E t \in tasks :
    /\ c.op = "update" /\ c.pc = "Ok" /\ c.count = 1
    /\ t.text_content = NewText /\ t.scheme_id = c.schemeId
    /\ \E j \in jobs : j.taskId = t.id /\ j.state = "completed" /\ j.text = BatchText

\* C15: retryFailedTasks never answers Conflict, whatever Tasks are Pending;
\* for a key without Task it creates an empty Pending placeholder, for every
\* key it adds exactly one job, and the count it returns is the number of
\* keys requested.
C15_RetryUpserts ==
  /\ [](\A c \in calls :
          c.op = "retry" =>
            /\ c.pc \in {"find", "upsert", "enqueue", "Ok"}
            /\ c.pc = "Ok" => c.count = Len(c.updates))
  /\ [][\A c \in calls : \A d \in calls' :
          (c.op = "retry" /\ d.cid = c.cid /\ d # c) =>
             /\ c.pc = "upsert" => d.pc = "enqueue"
             /\ c.pc = "enqueue" =>
                  /\ d.count = c.count + 1
                  /\ \E j \in jobs' \ jobs :
                       jobs' = jobs \cup {j} /\ j.taskId = c.taskId]_vars

\* C15 (amended): retryFailedTasks never answers Conflict; for each key it
\* either creates an empty Pending placeholder (no Task at the key) or resets
\* the Task of the key, and then adds exactly one job and counts the key, or,
\* when the Task of the key was created or deleted between the read and the
\* write of the upsert, skips the key changing no Task and no job; the count
\* returned is at most the number of keys requested.
C15_RetryUpsertsOrSkips ==
  /\ [](\A c \in calls :
          c.op = "retry" =>
            /\ c.pc \in {"find", "upsert", "enqueue", "Ok"}
            /\ c.count <= Len(c.updates))
  /\ [][\A c \in calls : \A d \in calls' :
          (c.op = "retry" /\ d.cid = c.cid /\ d # c) =>
             LET at == TasksAt(c.schemeId, c.updates[c.pos][1],
                               c.updates[c.pos][2])
             IN /\ (c.pc = "upsert" /\ d.pc = "enqueue"
                      /\ c.taskId = NoTaskId) =>
                     /\ at = {}
                     /\ \E t \in tasks' \ tasks :
                          /\ tasks' = tasks \cup {t}
                          /\ t.id = d.taskId
                          /\ t.scheme_id = c.schemeId
                          /\ t.scheme_index = c.updates[c.pos][1]
                          /\ t.segment_key = c.updates[c.pos][2]
                          /\ t.status = PENDING
                          /\ t.text_content = ""
                /\ (c.pc = "upsert" /\ d.pc = "enqueue"
                      /\ c.taskId # NoTaskId) =>
                     \E t \in at : \E u \in tasks' :
                       /\ tasks' = (tasks \ {t}) \cup {u}
                       /\ u.id = t.id /\ u.id = d.taskId
                       /\ u.status = PENDING
                /\ (c.pc = "upsert" /\ d.pc # "enqueue") =>
                     /\ tasks' = tasks /\ jobs' = jobs /\ d.count = c.count
                     /\ \/ c.taskId = NoTaskId /\ at # {}
                        \/ c.taskId # NoTaskId /\ TaskById(c.taskId) = {}
                /\ c.pc = "enqueue" =>
                     /\ d.count = c.count + 1
                     /\ \E j \in jobs' \ jobs :
                          jobs' = jobs \cup {j} /\ j.taskId = c.taskId]_vars

\* a retry call has returned after creating a placeholder while another Task
\* of the scheme was Pending
C15_Witness ==
  \E c \in calls : \E t \in tasks : \E u \in tasks :
    /\ c.op = "retry" /\ c.pc = "Ok" /\ c.count = Len(c.updates)
    /\ t.scheme_id = c.schemeId /\ t.text_content = "" /\ t.retry_count = 1
    /\ t.scheme_index = c.updates[1][1] /\ t.segment_key = c.updates[1][2]
    /\ u.scheme_id = c.schemeId /\ u.id < t.id /\ u.status = PENDING
    /\ u.retry_count = 0 /\ u.text_content = BatchText

\* C16: for each key of a createTasks call, with keepHistory the Tasks found
\* at the key are kept, marked Deprecated with the explanatory error_log, and
\* a new Pending Task is added at the key; without keepHistory the Tasks at
\* the key are deleted and the new Pending Task is the only one at the key.
C16_HistoryOrOverwrite ==
  [][\A c \in calls : \A d \in calls' :
       (c.op = "create" /\ d.cid = c.cid /\ d # c) =>
          LET i == KeyIndex(c.pos)
              k == KeySegment(c.pos)
              at == TasksAt(c.schemeId, i, k)
              added == \E t \in tasks' \ tasks :
                         /\ tasks' = tasks \cup {t}
                         /\ t.scheme_id = c.schemeId /\ t.scheme_index = i
                         /\ t.segment_key = k /\ t.status = PENDING
          IN /\ (c.pc = "old" /\ c.keepHistory) =>
                  /\ {t.id : t \in tasks'} = {t.id : t \in tasks}
                  /\ tasks' \ tasks =
                       {[t EXCEPT !.status = DEPRECATED,
                                  !.error_log = DeprecatedLog] :
                          t \in {u \in at : u.status # DEPRECATED}}
             /\ (c.pc = "old" /\ ~c.keepHistory) => tasks' = tasks \ at
             /\ (c.pc = "new" /\ c.keepHistory) => added
             /\ (c.pc = "new" /\ ~c.keepHistory /\ at = {}) => added]_vars

InProgress(s) ==
  {p \in DOMAIN schemeLocks[s] : schemeLocks[s][p].snap # NoSnap}

C21_FailedOnlyWhenExhausted ==
  /\ [](\A j \in jobs :
          /\ j.attemptsMade <= attempts
          /\ j.state = "delayed" =>
               \A t \in TaskById(j.taskId) : t.status # FAILED)
  /\ [][\A t \in tasks' :
          ( /\ t.status = FAILED
            /\ \A u \in TaskById(t.id) : u.status # FAILED ) =>
             \E j \in jobs' :
               /\ j.taskId = t.id
               /\ j.state = "failed"
               /\ j.attemptsMade = attempts]_vars


Completing(j) ==
  /\ j.state = "completed"
  /\ \A o \in jobs : o.id = j.id => o.state # "completed"

\* C23: a delivery that succeeds writes the Task as Success (audio_url set,
\* retry_count 0, error_log cleared), then updates the document, and only then
\* is checkSchemeTasks started for it: at the step that completes a job and
\* starts its checkSchemeTasks run, the job's Task is Success with the job's
\* URL and the document holds that URL at the job's key.
C23_SuccessThenDocumentThenAggregator ==
  [][\A j \in jobs' : Completing(j) =>
       /\ handlers' = handlers (+) SetToBag({NewHandler(j.schemeId)})
       /\ \E o \in jobs : o.id = j.id /\ o.pc = "locked"
       /\ {t \in tasks' : t.id = j.taskId} # {}
       /\ \A t \in tasks' :
            t.id = j.taskId =>
              /\ t.status = SUCCESS
              /\ t.audio_url = AudioUrlOf(j)
              /\ t.retry_count = 0
              /\ t.error_log = NoLog
       /\ document'[j.schemeId] # NoDoc =>
            /\ j.schemeIndex < Len(document'[j.schemeId])
            /\ AudioField(document'[j.schemeId][j.schemeIndex + 1],
                          j.segmentKey) = AudioUrlOf(j)]_vars


\* C24: every failed delivery, whatever failed, ends in the catch block of
\* process(): the Task is written Pending with retry_count one higher than
\* before and the attempt number in error_log, the error is thrown again to
\* the queue (the attempt is counted and the job re-queued or failed), and no
\* API call is affected.
C24_FailedDelivery ==
  [][\A j \in jobs : \A d \in jobs' :
       (d.id = j.id /\ d # j) =>
          /\ (j.pc = "catchWrite") =>
               /\ d.pc = "thrown" /\ d.state = "active"
               /\ calls' = calls
               /\ \A t \in TaskById(j.taskId) :
                    tasks' = (tasks \ {t}) \cup
                      {[t EXCEPT !.status = PENDING,
                                 !.retry_count = t.retry_count + 1,
                                 !.error_log = AttemptLog(t.retry_count + 1)]}
          /\ (j.pc = "thrown") =>
               /\ d.attemptsMade = j.attemptsMade + 1
               /\ d.state \in {"delayed", "failed"}
               /\ calls' = calls]_vars


\* C25: a job delivered when its Task row does not exist fails the attempt
\* without a call of the provider or the object store, without a write of the
\* document and without creating or changing a Task row: the delivery goes
\* straight to the catch block, and every step of the attempt up to the
\* re-queueing leaves tasks, document and lock chain as they are.
C25_MissingTaskFailsFast ==
  [][\A j \in jobs : \A d \in jobs' :
       ( /\ d.id = j.id /\ d # j
         /\ {t \in tasks : t.id = j.taskId} = {}
         /\ \/ j.state \in {"waiting", "delayed"}
            \/ j.state = "active" /\ j.pc \in {"catchWrite", "thrown"} ) =>
          /\ tasks' = tasks
          /\ document' = document
          /\ schemeLocks' = schemeLocks
          /\ j.state \in {"waiting", "delayed"} =>
               d.state = "active" /\ d.pc = "catchWrite"
          /\ j.pc = "catchWrite" => d.state = "active" /\ d.pc = "thrown"
          /\ j.pc = "thrown" =>
               /\ d.state \in {"delayed", "failed"}
               /\ d.attemptsMade = j.attemptsMade + 1]_vars

\* a job was delivered after its Task row had been deleted, and the attempt
\* has failed
C25_Witness ==
  \E j \in jobs :
    /\ TaskById(j.taskId) = {}
    /\ j.state = "delayed" /\ j.attemptsMade = 1
    /\ budget.failures = ApiFailures


\* C26: updateSegmentAudio on a scheme that has no row, or whose
\* download_content is absent or empty, returns to its caller without an error
\* and writes nothing: when such an operation ends, the document is left as it
\* is and process() goes on to return, so the job is completed.
C26_NoDocumentNoOp ==
  [][\A s \in SchemeIds :
       ( /\ ttsState[s] = NoScheme \/ document[s] = NoDoc
         /\ schemeLocks'[s] # schemeLocks[s]
         /\ Len(schemeLocks'[s]) <= Len(schemeLocks[s]) ) =>
          /\ document' = document
          /\ schemeLocks'[s] = Tail(schemeLocks[s])
          /\ \E j \in jobs' :
               /\ j.id = Head(schemeLocks[s]).job
               /\ j.state = "completed"]_vars

\* updateSegmentAudio has returned for a job of a scheme without row and for
\* a job of a scheme without download_content
C26_Witness ==
  \E j1 \in jobs : \E j2 \in jobs :
    /\ j1.state = "completed" /\ ttsState[j1.schemeId] = NoScheme
    /\ j2.state = "completed" /\ ttsState[j2.schemeId] # NoScheme
    /\ document[j2.schemeId] = NoDoc


\* jobs of a scheme that no worker has taken yet
Undelivered(js, s) ==
  {j \in js : j.schemeId = s /\ j.state \in {"waiting", "delayed"}}

\* C27: after a successful createTasks call for a scheme, the only waiting
\* or delayed jobs of the scheme are those the call added: the older ones were
\* removed before the call created a Task, and no step of the call removes or
\* alters a job of another scheme.
C27_OnlyOwnJobsQueued ==
  [][\A c \in calls : \A d \in calls' :
       (c.op = "create" /\ d.cid = c.cid /\ d # c) =>
          /\ (c.pc = "clearQueue" /\ d.pc = "setProcessing") =>
               /\ jobs' = jobs \ Undelivered(jobs, c.schemeId)
               /\ Undelivered(jobs', c.schemeId) = {}
               /\ tasks' = tasks /\ c.count = 0
          /\ c.pc # "clearQueue" => jobs \subseteq jobs'
          /\ {j \in jobs' : j.schemeId # c.schemeId}
               = {j \in jobs : j.schemeId # c.schemeId}
          /\ (d.pc = "Ok" /\ c.n >= 1) =>
               \A j \in Undelivered(jobs', c.schemeId) : j.by = c.cid]_vars


\* C28: starting a new batch does not preempt a job that is executing: the
\* step of createTasks that clears the queue removes exactly the waiting and
\* delayed jobs of the scheme and the call goes on to start the batch, also
\* when a worker is processing a job of the scheme, so that this job can
\* still write its URL after the call has reset the document.
C28_RunningJobNotPreempted ==
  [][\A c \in calls : \A d \in calls' :
       (c.op = "create" /\ c.pc = "clearQueue" /\ d.cid = c.cid /\ d # c) =>
          /\ d.pc = "setProcessing"
          /\ jobs' = jobs \ Undelivered(jobs, c.schemeId)]_vars


\* C29: the only step of a createTasks call that writes a document is the
\* reset of clearAudioUrls: it leaves the scheme's document with the same
\* Segments in the same order, each with its three audio URLs empty and its
\* other fields as they were, and leaves the other schemes' documents alone;
\* a call that finds no document goes on to its loop without that step.
C29_ResetClearsAudioUrls ==
  [][\A c \in calls : \A d \in calls' :
       (c.op = "create" /\ d.cid = c.cid /\ d # c) =>
          /\ (c.pc = "clearRead" /\ document[c.schemeId] = NoDoc) =>
               d.pc # "clearWrite"
          /\ (c.pc = "clearRead" /\ document[c.schemeId] # NoDoc) =>
               d.pc = "clearWrite"
          /\ c.pc # "clearWrite" => document' = document
          /\ c.pc = "clearWrite" =>
               /\ \A o \in SchemeIds \ {c.schemeId} : document'[o] = document[o]
               /\ Len(document'[c.schemeId]) = Len(document[c.schemeId])
               /\ \A x \in 1..Len(document[c.schemeId]) :
                    LET old == document[c.schemeId][x]
                        new == document'[c.schemeId][x]
                    IN /\ new.beginAudioUrl = NoUrl
                       /\ new.middleAudioUrl = NoUrl
                       /\ new.endAudioUrl = NoUrl
                       /\ new.planNumber = old.planNumber
                       /\ new.schemeContent = old.schemeContent]_vars

\* a createTasks call has just reset a document into which a job of an earlier
\* retry had written its URL: the Task of that job still carries the URL
C29_Witness ==
  \E c \in calls : \E t \in tasks :
    /\ c.op = "create" /\ c.pc = "old"
    /\ t.scheme_id = c.schemeId /\ t.status = SUCCESS /\ t.audio_url # NoUrl
    /\ \A j \in jobs : j.state # "active"
    /\ document[c.schemeId] # NoDoc
    /\ \A x \in 1..Len(document[c.schemeId]) :
         document[c.schemeId][x].beginAudioUrl = NoUrl


\* C30: the locks of different schemes are independent: the operation at the
\* head of a scheme's chain can take its next step whatever the chains of
\* the other schemes hold, pending or running, and a step that starts,
\* finishes or submits an operation of one scheme leaves the chains of the
\* other schemes as they are.
C30_IndependentLocks ==
  /\ [](\A s \in SchemeIds :
          (schemeLocks[s] # <<>> /\ NumHandlers < budget.handlers) =>
             ENABLED (LockRead(s, 1) \/ LockWrite(s, 1)))
  /\ [][\A s \in SchemeIds :
          schemeLocks'[s] # schemeLocks[s] =>
             \A o \in SchemeIds \ {s} : schemeLocks'[o] = schemeLocks[o]]_vars

\* operations of two schemes are between their read and their write at the
\* same time
C30_Witness ==
  \A s \in SchemeIds : schemeLocks[s] # <<>> /\ schemeLocks[s][1].snap # NoSnap


\* C31: in every reachable state a scheme that has a Pending Task is in
\* state PROCESSING; a retry of Tasks of a scheme in a terminal state does
\* not leave the scheme terminal while work is pending.
C31_PendingImpliesProcessing ==
  \A s \in SchemeIds :
    (\E t \in tasks : t.scheme_id = s /\ t.status = PENDING) =>
       ttsState[s] = PROCESSING


\* C32: at any time at most one job that is waiting, delayed or active
\* exists per Task id, whatever createTasks, updateTasksExclusive and
\* retryFailedTasks calls have been made, a retry of a Pending Task included.
C32_OneLiveJobPerTask ==
  \A j1 \in jobs : \A j2 \in jobs :
    (/\ j1.state \in {"waiting", "delayed", "active"}
     /\ j2.state \in {"waiting", "delayed", "active"}
     /\ j1.taskId = j2.taskId) => j1.id = j2.id


\* C33: once a Task is Success, no step of a worker, of the lock chain or of
\* an event handler changes its status; only the API calls move a Task out of
\* Success, and a failed delivery of another job of the same Task does not
\* turn it back to Pending or Failed.
C33_SuccessIsStable ==
  [][calls' = calls =>
       \A t \in tasks :
         t.status = SUCCESS =>
            \E u \in tasks' : u.id = t.id /\ u.status = SUCCESS]_vars


\* C34: the decision of checkSchemeTasks is atomic with respect to Task
\* changes: the step that writes Success or Failed to tts_task_state is
\* never taken while a Task of that scheme is Pending, whatever calls and
\* workers ran between its counts and its write.
C34_AggregatorAtomic ==
  [][\A s \in SchemeIds :
       (/\ ttsState'[s] # ttsState[s]
        /\ ttsState'[s] \in {SCHEME_SUCCESS, SCHEME_FAILED}) =>
          ~ \E t \in tasks : t.scheme_id = s /\ t.status = PENDING]_vars


\* jobs a behaviour of SpecChain can enqueue: one for each retry call
JobIds == 1..SchemesRetries

\* the operation that the job with this id has submitted is in the chain
Submitted(s, id) == \E p \in DOMAIN schemeLocks[s] : schemeLocks[s][p].job = id

\* C35: a failure inside a locked operation releases the lock: every
\* operation submitted to a scheme's chain eventually leaves it and the
\* updateSegmentAudio call that submitted it returns, so that its job
\* completes, also when the operation or one before it throws (missing
\* scheme, index outside the document); the chain never deadlocks.
C35_ChainProgress ==
  \A s \in SchemeIds : \A id \in JobIds :
    Submitted(s, id) ~>
      (~Submitted(s, id) /\ \E j \in jobs : j.id = id /\ j.state = "completed")

\* two jobs of one scheme have completed although the locked function of
\* each of them threw
C35_Witness ==
  \E s \in SchemeIds : \E j1 \in jobs : \E j2 \in jobs :
    /\ j1.id # j2.id /\ j1.schemeId = s /\ j2.schemeId = s
    /\ j1.state = "completed" /\ j2.state = "completed"
    /\ schemeLocks[s] = <<>>
    /\ \/ ~SchemeExists(s)
       \/ /\ document[s] # NoDoc
          /\ j1.schemeIndex + 1 > Len(document[s])
          /\ j2.schemeIndex + 1 > Len(document[s])


\* C36: in every reachable state a non-empty audio URL that the document
\* holds at (schemeIndex, segmentKey) is the audio_url of a Success Task at
\* that key; the document shows no audio for a key whose Task is Pending,
\* Failed or absent.
C36_DocumentMatchesTasks ==
  \A s \in SchemeIds : \A x \in DOMAIN document[s] :
    \A p \in DOMAIN segmentKeys :
      LET url == AudioField(document[s][x], segmentKeys[p])
      IN url # NoUrl =>
           \E t \in tasks :
             /\ t.scheme_id = s /\ t.scheme_index = x - 1
             /\ t.segment_key = segmentKeys[p]
             /\ t.status = SUCCESS /\ t.audio_url = url


\* C37: createTasks never strands a scheme in PROCESSING: at the step at
\* which a call that has set tts_task_state = PROCESSING returns, normally
\* or with an error, some Task of the scheme is Pending and has a job
\* waiting, delayed or active, so that a checkSchemeTasks run is still due;
\* this includes a call with no items.
C37_NotStranded ==
  [][\A c \in calls : \A d \in calls' :
       (/\ c.op = "create" /\ d.cid = c.cid
        /\ c.pc \notin ReturnedPcs /\ d.pc \in ReturnedPcs
        /\ c.pc \notin {"clearQueue", "setProcessing"}) =>
          \E t \in tasks' :
            /\ t.scheme_id = c.schemeId /\ t.status = PENDING
            /\ \E j \in jobs' :
                 /\ j.taskId = t.id
                 /\ j.state \in {"waiting", "delayed", "active"}]_vars


\* C38: after a successful createTasks call in overwrite mode with N items,
\* the Tasks of the scheme are the 3N Tasks at the keys of that call: at the
\* step at which the call returns, no Task of the scheme has a schemeIndex
\* of N or more, and every key below N has exactly one Task.
C38_OnlyBatchTasks ==
  [][\A c \in calls : \A d \in calls' :
       (/\ c.op = "create" /\ ~c.keepHistory /\ d.cid = c.cid
        /\ c.pc # "Ok" /\ d.pc = "Ok") =>
          /\ \A t \in tasks' :
               t.scheme_id = c.schemeId => t.scheme_index < c.n
          /\ Cardinality({t \in tasks' : t.scheme_id = c.schemeId}) = 3 * c.n]_vars


\* C39: the stored and the computed aggregate agree at quiescence: when
\* nothing is in flight, a scheme has Tasks and none of them Pending, and
\* checkSchemeTasks has written its decision, tts_task_state is Success if
\* and only if getOverallStatus answers "success", and Failed if and only if
\* it answers "failed", Deprecated Tasks included.
C39_StoredMatchesComputed ==
  \A s \in SchemeIds :
    (/\ Quiet
     /\ \E t \in tasks : t.scheme_id = s
     /\ \A t \in tasks : t.scheme_id = s => t.status # PENDING
     /\ ttsState[s] \in {SCHEME_SUCCESS, SCHEME_FAILED}) =>
       /\ ttsState[s] = SCHEME_SUCCESS <=> getOverallStatus(s).overall = "success"
       /\ ttsState[s] = SCHEME_FAILED <=> getOverallStatus(s).overall = "failed"

=============================================================================
